---- MODULE Spec2Model ----
(***************************************************************************)
(* A model of parkerroan/ratebroker: the sliding-window counters           *)
(* (RingLimiter, HeapLimiter), the decision engine (RateBroker) and the    *)
(* Redis message broker's publish queue.                                   *)
(*                                                                         *)
(* Time is an integer number of ticks; a time.Duration is a difference of  *)
(* two instants.  time.Time.Before is <, After is >, Sub is -.             *)
(***************************************************************************)
EXTENDS Integers, Sequences, FiniteSets, Bags

\* ------------------------------------------------------------------ bounds
MaxN == 2        \* largest capacity N a counter is built with
MaxW == 2        \* largest window W, in ticks
MaxTime == 4     \* observation times are 0..MaxTime
MaxHeap == 3     \* Accept is not explored on a heap that holds MaxHeap entries
MaxCalls == 6    \* calls explored from a fresh counter in the in-order runs
MaxReq == 2      \* largest maxRequests the engine is configured with
MaxClock == 1    \* the engine's clock runs over 0..MaxClock
QueueCap == 1    \* capacity of publishChannel (100 in NewRedisMessageBroker)
MaxThreads == 2  \* width of the engine's semaphore (WithMaxThreads)
PubThreads == 2  \* width of the broker's semaphore (100 in NewRedisMessageBroker)
BatchSize == 1   \* batchSize of StartPublisher (100 in the source)
ReadCount == 1   \* Count of the consumer's XRead (100 in the source)
MaxDirect == 1   \* Publish calls made directly on the broker, at a time
MaxRemote == 1   \* records other instances append to the stream
MaxStream == 2   \* records the stream holds at most
MaxTry == 4      \* TryAccept calls made on the engine
MaxLate == 3     \* the clock runs over 0..MaxLate where only the consumer runs
MaxSkew == 2     \* clock offsets an NTP answer reports are -MaxSkew..MaxSkew
RefreshAfter == 1 \* ticks after which Now() queries again (1 minute in the source)
MaxPre == 3      \* events folded into a counter before the first local call
MaxGo == 3       \* goroutines that call one counter at the same time
MaxLater == 3    \* calls made on the two heaps after the pair of Accepts
MaxFails == 4    \* XReads that fail with a transport error
BackoffMin == 100      \* backoff.Min, in milliseconds
BackoffMax == 10000    \* backoff.Max, in milliseconds
BackoffFactor == 2     \* backoff.Factor

Times == 0..MaxTime
Nil == -1        \* an empty ring slot (ring.Value == nil)

VARIABLES
    rl,        \* the RingLimiter: [ring, cur, len, size, window]
    hl,        \* the HeapLimiter: [pq, size, window]
    lastOp,    \* the last counter call: its kind, time and the two results
    clock,     \* in-order runs: the latest observation time
    nCalls,    \* calls made since the counter, or the engine, was built
    firstT,    \* in-order runs: time of the first call (Nil before it)
    denied,    \* in-order runs: whether some call was denied so far
    accR,      \* timestamps the ring recorded, per time, in the runs that track them
    accH,      \* timestamps the heap recorded, per time, in the runs that track them
    nPre,      \* events of other instances folded in with Accept
    ntp,       \* the clock of the engine: [server, client, last]
    rb,        \* the RateBroker: [id, broker, sem, maxRequests, window, heap]
    timeNow,   \* time.Now()
    objs,      \* the limiters allocated so far (a limiter is referred to by index)
    cache,     \* rb.cache: key -> index of its limiter, 0 when absent
    calls,     \* per caller: where its TryAccept stands, and its locals
    lastRet,   \* what the last TryAccept that returned gave its caller
    semHeld,   \* permits of rb.sem that are held
    pubCalls,  \* bag of broker.Publish calls that have not returned
    queue,     \* publishChannel's buffer
    chClosed,  \* whether publishChannel was closed
    crashed,   \* whether a goroutine panicked (the process is gone)
    lastPub,   \* what the last broker.Publish that returned did
    flush,     \* StartPublisher: [pc, events, i, err]
    pubHeld,   \* permits of the broker's semaphore that are held
    xadds,     \* bag of batches whose background publish is in flight
    ctxDone,   \* whether the context given to Start was cancelled
    stream,    \* the Redis stream: a sequence of records, each a batch of events
    nRemote,   \* records appended by other instances
    cons,      \* Consume: [pc, lastMessageID]
    handlers,  \* bag of handler goroutines: [ev, pc, ul]
    twin,      \* a second HeapLimiter and the results of the calls made on both
    mutex,     \* the counter's sync.Mutex: the goroutine holding it, Nil when free
    thr,       \* per goroutine calling the counter: [pc, t, allowed, ok]
    backoff    \* r.backoff and the consumer's last sleep: [attempt, slept, retries, at]

\* The second heap and the goroutines on one counter: driven by their own
\* specifications only, left alone by every other action.
sideVars == <<twin, mutex, thr, backoff>>
limVars == <<rl, hl, lastOp, clock, nCalls, firstT, denied, accR, accH, nPre,
             sideVars>>
engVars == <<ntp, rb, timeNow, objs, cache, calls, lastRet, semHeld, pubCalls, queue,
             chClosed, crashed, lastPub, flush, pubHeld, xadds, ctxDone, stream,
             nRemote, cons, handlers, sideVars>>
vars == <<rl, hl, lastOp, clock, nCalls, firstT, denied, accR, accH, nPre,
          ntp, rb, timeNow, objs, cache, calls, lastRet, semHeld, pubCalls, queue,
          chClosed, crashed, lastPub, flush, pubHeld, xadds, ctxDone, stream,
          nRemote, cons, handlers, twin, mutex, thr, backoff>>

\* ------------------------------------------------------------ RingLimiter
\* container/ring: a cycle of `size` elements, rl.ring pointing at one of them.
NewRingLimiter(size, window) ==
    [ring |-> [i \in 1..size |-> Nil], cur |-> 1, len |-> 0,
     size |-> size, window |-> window]

\* ring.New(0) is nil: every method of the limiter then reads rl.ring.Value
\* through a nil pointer and panics.
Ring_panics(r) == Len(r.ring) = 0

RingNext(r, p) == IF p = Len(r.ring) THEN 1 ELSE p + 1

Ring_try_OffByOne(r, now) ==
    LET oldestAllowedTime == now - r.window
        v == r.ring[r.cur]
    IN  v = Nil \/ v <= oldestAllowedTime

Ring_try(r, now) ==
    LET oldestAllowedTime == now - r.window
        v == r.ring[r.cur]
    IN  v = Nil \/ v < oldestAllowedTime

Ring_accept_NoAdvance(r, now) ==
    [r EXCEPT !.ring[r.cur] = now,
              !.len = IF r.len < r.size THEN r.len + 1 ELSE r.len]

Ring_accept(r, now) ==
    [r EXCEPT !.ring[r.cur] = now,
              !.cur = RingNext(r, r.cur),
              !.len = IF r.len < r.size THEN r.len + 1 ELSE r.len]

Ring_Accept(r, now) == Ring_accept(r, now)

Ring_TryAccept_RecordsDenied(r, now) ==
    [ok |-> Ring_try(r, now), lim |-> Ring_accept(r, now)]

Ring_TryAccept(r, now) ==
    IF Ring_try(r, now)
    THEN [ok |-> TRUE, lim |-> Ring_accept(r, now)]
    ELSE [ok |-> FALSE, lim |-> r]

\* The loop of calculateRemaining, started at slot p with invalidCount = 0.
RECURSIVE calculateRemainingFrom(_, _, _)
calculateRemainingFrom(r, p, oldestAllowedTime) ==
    IF r.ring[p] = Nil \/ r.ring[p] < oldestAllowedTime
    THEN IF RingNext(r, p) = r.cur
         THEN 1
         ELSE 1 + calculateRemainingFrom(r, RingNext(r, p), oldestAllowedTime)
    ELSE 0

calculateRemaining(r, oldestAllowedTime) ==
    calculateRemainingFrom(r, r.cur, oldestAllowedTime)

getRateLimitInfo(r, now) ==
    LET oldestAllowedTime == now - r.window
        oldestRequest == r.ring[r.cur]
    IN  IF oldestRequest # Nil /\ oldestRequest > oldestAllowedTime
        THEN [Remaining |-> 0, Reset |-> (oldestRequest + r.window) - now,
              Limit |-> r.size, Window |-> 0]
        ELSE [Remaining |-> calculateRemaining(r, oldestAllowedTime), Reset |-> 0,
              Limit |-> r.size, Window |-> 0]

Ring_TryAcceptWithInfo(r, now) ==
    LET info == getRateLimitInfo(r, now)
    IN  IF info.Remaining > 0
        THEN [ok |-> TRUE, lim |-> Ring_accept(r, now),
              info |-> [info EXCEPT !.Remaining = info.Remaining - 1]]
        ELSE [ok |-> FALSE, lim |-> r, info |-> info]

\* ------------------------------------------------------------ HeapLimiter
\* container/heap over priorityQueue; Go indices are 0-based, a pq here is a
\* sequence, so Go's pq[i] is pq[i + 1].
Less_Reversed(pq, i, j) == pq[i + 1] > pq[j + 1]

Less(pq, i, j) == pq[i + 1] < pq[j + 1]

Swap(pq, i, j) == [pq EXCEPT ![i + 1] = pq[j + 1], ![j + 1] = pq[i + 1]]

RECURSIVE up(_, _)
up(pq, j) ==
    LET i == IF j = 0 THEN 0 ELSE (j - 1) \div 2      \* Go's (j - 1) / 2 truncates
    IN  IF i = j \/ ~Less(pq, j, i) THEN pq ELSE up(Swap(pq, i, j), i)

RECURSIVE down(_, _, _)
down(pq, i, n) ==
    LET j1 == 2 * i + 1
        j2 == j1 + 1
        j  == IF j2 < n /\ Less(pq, j2, j1) THEN j2 ELSE j1
    IN  IF j1 >= n THEN pq
        ELSE IF ~Less(pq, j, i) THEN pq
        ELSE down(Swap(pq, i, j), j, n)

heapPush_NoUp(pq, x) == Append(pq, x)

heapPush(pq, x) == up(Append(pq, x), Len(pq))

heapPop(pq) ==
    LET n == Len(pq) - 1
    IN  SubSeq(down(Swap(pq, 0, n), 0, n), 1, n)

NewHeapLimiter(size, window) == [pq |-> <<>>, size |-> size, window |-> window]

RECURSIVE evict_Inclusive(_, _, _)
evict_Inclusive(pq, now, window) ==
    IF Len(pq) > 0 /\ now - pq[1] >= window
    THEN evict_Inclusive(heapPop(pq), now, window)
    ELSE pq

\* The eviction loop of try and of TryAcceptWithInfo.
RECURSIVE evict(_, _, _)
evict(pq, now, window) ==
    IF Len(pq) > 0 /\ now - pq[1] > window
    THEN evict(heapPop(pq), now, window)
    ELSE pq

Heap_accept(h, now) == [h EXCEPT !.pq = heapPush(h.pq, now)]

Heap_Accept_Ignored(h, now) == h

Heap_Accept(h, now) == Heap_accept(h, now)

\* try: the heap after the eviction, and whether there is room.
Heap_try_NoEvict(h, now) ==
    [ok |-> Len(h.pq) < h.size, lim |-> h]

Heap_try(h, now) ==
    LET pq1 == evict(h.pq, now, h.window)
    IN  [ok |-> ~(Len(pq1) >= h.size), lim |-> [h EXCEPT !.pq = pq1]]

Heap_TryAccept_Unchecked(h, now) ==
    [ok |-> TRUE, lim |-> Heap_accept(Heap_try(h, now).lim, now)]

Heap_TryAccept(h, now) ==
    LET r == Heap_try(h, now)
    IN  IF r.ok
        THEN [ok |-> TRUE, lim |-> Heap_accept(r.lim, now)]
        ELSE [ok |-> FALSE, lim |-> r.lim]

Heap_TryAcceptWithInfo(h, now) ==
    LET h1 == [h EXCEPT !.pq = evict(h.pq, now, h.window)]
        info == [Remaining |-> h.size - Len(h1.pq), Reset |-> 0,
                 Limit |-> h.size, Window |-> 0]
        h2 == Heap_accept(h1, now)
    IN  IF info.Remaining > 0
        THEN [ok |-> TRUE, lim |-> h2,
              info |-> [info EXCEPT
                          !.Remaining = info.Remaining - 1,
                          !.Reset = IF Len(h2.pq) > 1
                                    THEN (h2.pq[1] + h.window) - now
                                    ELSE h.window]]
        ELSE [ok |-> FALSE, lim |-> h1,
              info |-> [info EXCEPT !.Reset = (h1.pq[1] + h.window) - now]]

\* TryAcceptWithInfo reads hl.pq[0] on its denial path: an index out of range,
\* a panic, when the heap is empty there.
Heap_TryAcceptWithInfo_panics(h, now) ==
    LET pq == evict(h.pq, now, h.window)
    IN  ~(h.size - Len(pq) > 0) /\ Len(pq) = 0

\* ------------------------------------------------------------- RateBroker
Keys == {"a", "b"}
Callers == {"c1"}
Self == "self"        \* rb.id
Other == "other"      \* the id of another instance

Message(b, k, t) == [BrokerID |-> b, Key |-> k, Timestamp |-> t]

\* The zero RateEvent, which a receive from a closed, empty channel yields.  Its
\* timestamp is Go's zero time.Time, earlier than every instant of the model.
ZeroEvent == [BrokerID |-> "", Key |-> "", Timestamp |-> 0 - (MaxLate + MaxW + 1)]

newLimiterFunc ==
    IF rb.heap
    THEN [heap |-> TRUE, s |-> NewHeapLimiter(rb.maxRequests, rb.window)]
    ELSE [heap |-> FALSE, s |-> NewRingLimiter(rb.maxRequests, rb.window)]

Limiter_TryAccept(l, t) ==
    LET r == IF l.heap THEN Heap_TryAccept(l.s, t) ELSE Ring_TryAccept(l.s, t)
    IN  [ok |-> r.ok, lim |-> [l EXCEPT !.s = r.lim]]

Limiter_Accept_AsTryAccept(l, t) == Limiter_TryAccept(l, t).lim

Limiter_Accept(l, t) ==
    [l EXCEPT !.s = IF l.heap THEN Heap_Accept(l.s, t) ELSE Ring_Accept(l.s, t)]

getLimiter(key) == cache[key]

IdleCall == [pc |-> "idle", key |-> "", t |-> 0, ul |-> 0, cancelled |-> FALSE,
             sub |-> <<>>]

NoRet == [ok |-> FALSE, allow |-> FALSE, err |-> FALSE, returned |-> FALSE]

NoPub == [ctx |-> "none", err |-> "nil", enq |-> FALSE, full |-> FALSE]

FlushStart == [pc |-> "first", events |-> <<>>, i |-> 0, err |-> FALSE]

\* The clock of an engine built without WithNTPServer: rb.ntpServer is "",
\* rb.ntpClient is nil, Now() was not called yet.
NoClient == [Time |-> 0, ClockOffset |-> 0, set |-> FALSE]
NoNow == [called |-> FALSE, val |-> 0, sys |-> 0, failed |-> FALSE]
LocalClock == [server |-> FALSE, client |-> NoClient, last |-> NoNow]

\* RateBroker.Start: the consume loop is launched when a broker is configured.
Start_launchesConsumer_Always == TRUE

Start_launchesConsumer == rb.broker

Start ==
    [pc |-> IF Start_launchesConsumer THEN "read" ELSE "off", lastMessageID |-> 0]

\* Everything of the engine but its configuration, as NewRateBroker,
\* NewRedisMessageBroker and Start leave it.
EngineState ==
    /\ timeNow = 0
    /\ objs = <<>>
    /\ cache = [k \in Keys |-> 0]
    /\ calls = [c \in Callers |-> IdleCall]
    /\ lastRet = NoRet
    /\ semHeld = 0
    /\ pubCalls = EmptyBag
    /\ queue = <<>>
    /\ chClosed = FALSE
    /\ crashed = FALSE
    /\ lastPub = NoPub
    /\ flush = FlushStart
    /\ pubHeld = 0
    /\ xadds = EmptyBag
    /\ ctxDone = FALSE
    /\ stream = <<>>
    /\ nRemote = 0
    /\ cons = Start
    /\ handlers = EmptyBag

EngineFresh == ntp = LocalClock /\ EngineState

\* The engine while only the counters are driven: the defaults, no broker.
EngineIdle ==
    /\ rb = [id |-> Self, broker |-> FALSE, sem |-> FALSE, maxRequests |-> 1,
             window |-> 1, heap |-> FALSE]
    /\ EngineFresh

\* ------------------------------------------------- the counters, driven
Goroutines == 1..MaxGo

NoOut == [ok |-> FALSE, info |-> [Remaining |-> 0, Reset |-> 0, Limit |-> 0, Window |-> 0]]
NoTwin == [lim |-> NewHeapLimiter(0, 0), stage |-> "off", n |-> 0,
           mine |-> NoOut, its |-> NoOut]
IdleThr == [pc |-> "idle", t |-> 0, allowed |-> FALSE, ok |-> FALSE]

\* backoff.Backoff as NewRedisMessageBroker builds it: no attempt made yet.  The
\* other fields are the consumer's last sleep, and how many reads have failed
\* in a row at the cursor `at`.
NewBackoff == [attempt |-> 0, slept |-> 0, retries |-> 0, at |-> 0]

\* No second heap, and no goroutine inside the counter.
SideIdle ==
    /\ twin = NoTwin
    /\ mutex = Nil
    /\ thr = [g \in Goroutines |-> IdleThr]
    /\ backoff = NewBackoff

NewCounters(Ns, Ws) ==
    /\ \E n \in Ns, w \in Ws :
          /\ rl = NewRingLimiter(n, w)
          /\ hl = NewHeapLimiter(n, w)
    /\ lastOp = [kind |-> "new", t |-> 0, rOk |-> FALSE, hOk |-> FALSE]
    /\ clock = 0
    /\ nCalls = 0
    /\ firstT = Nil
    /\ denied = FALSE
    /\ accR = [t \in Times |-> 0]
    /\ accH = [t \in Times |-> 0]
    /\ nPre = 0

InitCounters(Ns, Ws) ==
    /\ SideIdle
    /\ NewCounters(Ns, Ws)

\* One call made on the ring and on the heap alike.
Call(kind, t, r, h) ==
    /\ UNCHANGED engVars
    /\ rl' = r.lim
    /\ hl' = h.lim
    /\ lastOp' = [kind |-> kind, t |-> t, rOk |-> r.ok, hOk |-> h.ok]

TryAcceptOp(t) ==
    /\ Call("TryAccept", t, Ring_TryAccept(rl, t), Heap_TryAccept(hl, t))
    /\ UNCHANGED <<clock, nCalls, firstT, denied, accR, accH, nPre>>

TryAcceptWithInfoOp(t) ==
    /\ Call("TryAcceptWithInfo", t,
            Ring_TryAcceptWithInfo(rl, t), Heap_TryAcceptWithInfo(hl, t))
    /\ UNCHANGED <<clock, nCalls, firstT, denied, accR, accH, nPre>>

AcceptOp(t) ==
    /\ Len(hl.pq) < MaxHeap
    /\ Call("Accept", t, [ok |-> TRUE, lim |-> Ring_Accept(rl, t)],
                         [ok |-> TRUE, lim |-> Heap_Accept(hl, t)])
    /\ UNCHANGED <<clock, nCalls, firstT, denied, accR, accH, nPre>>

\* Any calls at any times.
InitCounter == InitCounters(1..MaxN, 1..MaxW) /\ EngineIdle

NextCounter ==
    \E t \in Times : TryAcceptOp(t) \/ TryAcceptWithInfoOp(t) \/ AcceptOp(t)

SpecCounter == InitCounter /\ [][NextCounter]_vars

\* Only TryAccept / TryAcceptWithInfo, at observation times that never decrease.
InOrder(kind, t, r, h) ==
    /\ nCalls < MaxCalls
    /\ t >= clock
    /\ Call(kind, t, r, h)
    /\ clock' = t
    /\ nCalls' = nCalls + 1
    /\ firstT' = IF firstT = Nil THEN t ELSE firstT
    /\ denied' = (denied \/ ~r.ok \/ ~h.ok)
    /\ accR' = IF r.ok THEN [accR EXCEPT ![t] = @ + 1] ELSE accR
    /\ accH' = IF h.ok THEN [accH EXCEPT ![t] = @ + 1] ELSE accH
    /\ UNCHANGED nPre

InOrderTryAccept(t) ==
    InOrder("TryAccept", t, Ring_TryAccept(rl, t), Heap_TryAccept(hl, t))

InOrderTryAcceptWithInfo(t) ==
    InOrder("TryAcceptWithInfo", t,
            Ring_TryAcceptWithInfo(rl, t), Heap_TryAcceptWithInfo(hl, t))

NextInOrder ==
    \E t \in Times : InOrderTryAccept(t) \/ InOrderTryAcceptWithInfo(t)

SpecInOrder == InitCounter /\ [][NextInOrder]_vars

\* Counters and an engine built with any size and window, zero included:
\* no constructor checks its arguments.  The two variants are called apart,
\* and a call that panics ends the process.
InitAnyConfig ==
    /\ InitCounters(0..MaxN, 0..MaxW)
    /\ rb = [id |-> Self, broker |-> FALSE, sem |-> FALSE,
             maxRequests |-> rl.size, window |-> rl.window, heap |-> FALSE]
    /\ EngineFresh

AnyCall(kind, t, panics, r, h, onRing) ==
    /\ ~crashed
    /\ IF panics
       THEN /\ crashed' = TRUE
            /\ lastOp' = [lastOp EXCEPT !.kind = kind, !.t = t]
            /\ UNCHANGED <<rl, hl>>
       ELSE /\ rl' = r.lim
            /\ hl' = h.lim
            /\ lastOp' = IF onRing
                         THEN [lastOp EXCEPT !.kind = kind, !.t = t, !.rOk = r.ok]
                         ELSE [lastOp EXCEPT !.kind = kind, !.t = t, !.hOk = h.ok]
            /\ UNCHANGED crashed
    /\ UNCHANGED <<clock, nCalls, firstT, denied, accR, accH, nPre>>
    /\ UNCHANGED <<ntp, rb, timeNow, objs, cache, calls, lastRet, semHeld, pubCalls,
                   queue, chClosed, lastPub, flush, pubHeld, xadds, ctxDone,
                   stream, nRemote, cons, handlers, sideVars>>

Same(l) == [ok |-> FALSE, lim |-> l]

AnyRingTryAccept(t) ==
    AnyCall("TryAccept", t, Ring_panics(rl),
            IF Ring_panics(rl) THEN Same(rl) ELSE Ring_TryAccept(rl, t),
            Same(hl), TRUE)

AnyRingTryAcceptWithInfo(t) ==
    AnyCall("TryAcceptWithInfo", t, Ring_panics(rl),
            IF Ring_panics(rl) THEN Same(rl) ELSE Ring_TryAcceptWithInfo(rl, t),
            Same(hl), TRUE)

AnyHeapTryAccept(t) ==
    AnyCall("TryAccept", t, FALSE, Same(rl), Heap_TryAccept(hl, t), FALSE)

AnyHeapTryAcceptWithInfo(t) ==
    AnyCall("TryAcceptWithInfo", t, Heap_TryAcceptWithInfo_panics(hl, t), Same(rl),
            IF Heap_TryAcceptWithInfo_panics(hl, t) THEN Same(hl)
            ELSE Heap_TryAcceptWithInfo(hl, t), FALSE)

NextAnyConfig ==
    \E t \in Times :
        \/ AnyRingTryAccept(t)
        \/ AnyRingTryAcceptWithInfo(t)
        \/ AnyHeapTryAccept(t)
        \/ AnyHeapTryAcceptWithInfo(t)

SpecAnyConfig == InitAnyConfig /\ [][NextAnyConfig]_vars

\* ---------------------------------------------------------- RateBroker.Now
\* rb.ntpClient == nil || time.Since(rb.ntpClient.Time) > 1*time.Minute
Now_refreshDue ==
    ~ntp.client.set \/ timeNow - ntp.client.Time > RefreshAfter

\* ntp.Query answered: the response, whose Time is the server's clock.
Response(off) == [Time |-> timeNow + off, ClockOffset |-> off, set |-> TRUE]

\* One call of Now(); queryOk and off are the outcome of ntp.Query, if made.
Now(queryOk, off) ==
    /\ ~crashed
    /\ IF ~ntp.server
       THEN ntp' = [ntp EXCEPT !.last = [called |-> TRUE, val |-> timeNow,
                                         sys |-> timeNow, failed |-> FALSE]]
       ELSE IF Now_refreshDue /\ ~queryOk
       THEN ntp' = [ntp EXCEPT !.last = [called |-> TRUE, val |-> timeNow,
                                         sys |-> timeNow, failed |-> TRUE]]
       ELSE LET client == IF Now_refreshDue THEN Response(off) ELSE ntp.client
            IN  ntp' = [ntp EXCEPT !.client = client,
                           !.last = [called |-> TRUE,
                                     val |-> timeNow + client.ClockOffset,
                                     sys |-> timeNow, failed |-> FALSE]]
    /\ UNCHANGED <<limVars, rb, timeNow, objs, cache, calls, lastRet, semHeld,
                   pubCalls, queue, chClosed, crashed, lastPub, flush, pubHeld,
                   xadds, ctxDone, stream, nRemote, cons, handlers>>

\* Events of other instances are folded in with Accept, at any times, before
\* the first local call; the local calls then come at times that never decrease.
Preload(t) ==
    /\ nCalls = 0
    /\ nPre < MaxPre
    /\ Call("Accept", t, [ok |-> TRUE, lim |-> Ring_Accept(rl, t)],
                         [ok |-> TRUE, lim |-> Heap_Accept(hl, t)])
    /\ nPre' = nPre + 1
    /\ firstT' = IF firstT = Nil \/ t < firstT THEN t ELSE firstT
    /\ UNCHANGED <<clock, nCalls, denied, accR, accH>>

Local(kind, t, r, h) ==
    /\ nCalls < MaxCalls
    /\ t >= clock
    /\ Call(kind, t, r, h)
    /\ clock' = t
    /\ nCalls' = nCalls + 1
    /\ firstT' = IF firstT = Nil \/ t < firstT THEN t ELSE firstT
    /\ denied' = (denied \/ ~r.ok \/ ~h.ok)
    /\ accR' = IF r.ok THEN [accR EXCEPT ![t] = @ + 1] ELSE accR
    /\ accH' = IF h.ok THEN [accH EXCEPT ![t] = @ + 1] ELSE accH
    /\ UNCHANGED nPre

NextPreload ==
    \E t \in Times :
        \/ Preload(t)
        \/ Local("TryAccept", t, Ring_TryAccept(rl, t), Heap_TryAccept(hl, t))
        \/ Local("TryAcceptWithInfo", t,
                 Ring_TryAcceptWithInfo(rl, t), Heap_TryAcceptWithInfo(hl, t))

SpecPreload == InitCounter /\ [][NextPreload]_vars

\* Local calls at times that never decrease, and between them events of other
\* instances folded in with Accept at any timestamps; every timestamp recorded
\* is counted.
Fold(t) ==
    /\ nPre < MaxPre
    /\ Call("Accept", t, [ok |-> TRUE, lim |-> Ring_Accept(rl, t)],
                         [ok |-> TRUE, lim |-> Heap_Accept(hl, t)])
    /\ nPre' = nPre + 1
    /\ accR' = [accR EXCEPT ![t] = @ + 1]
    /\ accH' = [accH EXCEPT ![t] = @ + 1]
    /\ UNCHANGED <<clock, nCalls, firstT, denied>>

NextMixed ==
    \E t \in Times :
        \/ Fold(t)
        \/ Local("TryAccept", t, Ring_TryAccept(rl, t), Heap_TryAccept(hl, t))
        \/ Local("TryAcceptWithInfo", t,
                 Ring_TryAcceptWithInfo(rl, t), Heap_TryAcceptWithInfo(hl, t))

SpecMixed == InitCounter /\ [][NextMixed]_vars

\* Two heaps that share a history, take one pair of Accepts in the two orders,
\* and are then given the same calls.  hl is the one, twin.lim the other.
InitOrder ==
    /\ NewCounters(1..MaxN, 1..MaxW)
    /\ twin = [NoTwin EXCEPT !.lim = hl, !.stage = "before"]
    /\ mutex = Nil
    /\ thr = [g \in Goroutines |-> IdleThr]
    /\ backoff = NewBackoff
    /\ EngineIdle

OrderStep(kind, t, h, x, stage, n, mine, its) ==
    /\ hl' = h
    /\ twin' = [lim |-> x, stage |-> stage, n |-> n, mine |-> mine, its |-> its]
    /\ lastOp' = [lastOp EXCEPT !.kind = kind, !.t = t]
    /\ UNCHANGED <<rl, clock, nCalls, firstT, denied, accR, accH, nPre, mutex, thr,
                   backoff>>
    /\ UNCHANGED <<ntp, rb, timeNow, objs, cache, calls, lastRet, semHeld, pubCalls,
                   queue, chClosed, crashed, lastPub, flush, pubHeld, xadds, ctxDone,
                   stream, nRemote, cons, handlers>>

\* The shared history: any call, made on the one heap the two still are.
OrderBefore(kind, t, r) ==
    /\ twin.stage = "before"
    /\ OrderStep(kind, t, r.lim, r.lim, "before", 0, NoOut, NoOut)

OrderBeforeAccept(t) ==
    /\ Len(hl.pq) < MaxHeap - 1
    /\ OrderBefore("Accept", t, [lim |-> Heap_Accept(hl, t)])

\* Accept(a); Accept(b) on the one heap, Accept(b); Accept(a) on the other.
OrderAcceptPair(a, b) ==
    /\ twin.stage = "before"
    /\ OrderStep("Accept", b,
                 Heap_Accept(Heap_Accept(hl, a), b),
                 Heap_Accept(Heap_Accept(twin.lim, b), a),
                 "after", 0, NoOut, NoOut)

\* The same later call on both heaps.
OrderLater(kind, t, r, x) ==
    /\ twin.stage = "after"
    /\ twin.n < MaxLater
    /\ OrderStep(kind, t, r.lim, x.lim, "after", twin.n + 1,
                 [ok |-> r.ok, info |-> r.info], [ok |-> x.ok, info |-> x.info])

WithNoInfo(r) == [ok |-> r.ok, lim |-> r.lim, info |-> NoOut.info]

NextOrder ==
    \/ \E t \in Times : OrderBeforeAccept(t)
    \/ \E t \in Times : OrderBefore("TryAccept", t, Heap_TryAccept(hl, t))
    \/ \E t \in Times : OrderBefore("TryAcceptWithInfo", t, Heap_TryAcceptWithInfo(hl, t))
    \/ \E a, b \in Times : OrderAcceptPair(a, b)
    \/ \E t \in Times :
          OrderLater("TryAccept", t, WithNoInfo(Heap_TryAccept(hl, t)),
                     WithNoInfo(Heap_TryAccept(twin.lim, t)))
    \/ \E t \in Times :
          OrderLater("TryAcceptWithInfo", t, Heap_TryAcceptWithInfo(hl, t),
                     Heap_TryAcceptWithInfo(twin.lim, t))

SpecOrder == InitOrder /\ [][NextOrder]_vars

\* Goroutines calling TryAccept on one counter, a ring or a heap, at the same
\* time.  Every public method is mutex.Lock(); defer mutex.Unlock() around the
\* unexported try and accept.
InitLocked ==
    /\ NewCounters(1..MaxN, 1..MaxW)
    /\ SideIdle
    /\ \E hp \in BOOLEAN :
          rb = [id |-> Self, broker |-> FALSE, sem |-> FALSE,
                maxRequests |-> rl.size, window |-> rl.window, heap |-> hp]
    /\ EngineFresh

Locked(g, r, h, m, th) ==
    /\ rl' = r
    /\ hl' = h
    /\ mutex' = m
    /\ thr' = [thr EXCEPT ![g] = th]
    /\ UNCHANGED <<lastOp, clock, nCalls, firstT, denied, accR, accH, nPre, twin,
                   backoff>>
    /\ UNCHANGED <<ntp, rb, timeNow, objs, cache, calls, lastRet, semHeld, pubCalls,
                   queue, chClosed, crashed, lastPub, flush, pubHeld, xadds, ctxDone,
                   stream, nRemote, cons, handlers>>

\* A goroutine enters TryAccept(now).
Locked_call(g, now) ==
    /\ thr[g].pc = "idle"
    /\ Locked(g, rl, hl, mutex, [thr[g] EXCEPT !.pc = "lock", !.t = now])

mutex_Lock_ready_Always == TRUE

\* sync.Mutex: Lock returns only while no goroutine holds the mutex.
mutex_Lock_ready == mutex = Nil

mutex_Lock(g) ==
    /\ thr[g].pc = "lock"
    /\ mutex_Lock_ready
    /\ Locked(g, rl, hl, g, [thr[g] EXCEPT !.pc = "try"])

\* allowed := try(now); the heap's try evicts.
Locked_try(g) ==
    /\ thr[g].pc = "try"
    /\ LET r == Heap_try(hl, thr[g].t)
           allowed == IF rb.heap THEN r.ok ELSE Ring_try(rl, thr[g].t)
       IN  Locked(g, rl, IF rb.heap THEN r.lim ELSE hl, mutex,
                  [thr[g] EXCEPT !.pc = IF allowed THEN "accept" ELSE "unlock",
                                 !.allowed = allowed])

Locked_accept(g) ==
    /\ thr[g].pc = "accept"
    /\ Locked(g, IF rb.heap THEN rl ELSE Ring_accept(rl, thr[g].t),
                 IF rb.heap THEN Heap_accept(hl, thr[g].t) ELSE hl,
                 mutex, [thr[g] EXCEPT !.pc = "unlock"])

\* The deferred Unlock, and the return of the decision.
mutex_Unlock(g) ==
    /\ thr[g].pc = "unlock"
    /\ Locked(g, rl, hl, Nil, [thr[g] EXCEPT !.pc = "done", !.ok = thr[g].allowed])

NextLocked ==
    \/ \E g \in Goroutines, t \in Times : Locked_call(g, t)
    \/ \E g \in Goroutines : mutex_Lock(g)
    \/ \E g \in Goroutines : Locked_try(g)
    \/ \E g \in Goroutines : Locked_accept(g)
    \/ \E g \in Goroutines : mutex_Unlock(g)

SpecLocked == InitLocked /\ [][NextLocked]_vars


\* ------------------------------------------------- RateBroker.TryAccept
\* NewRateBroker with its options, then Start: with or without a broker, with or
\* without WithMaxThreads, ring or heap limiters.
InitRateBroker(brokers, sems, maxRequests, heaps) ==
    /\ InitCounters({1}, {1})
    /\ \E b \in brokers, sm \in sems, n \in maxRequests, hp \in heaps :
          /\ (sm => b)
          /\ rb = [id |-> Self, broker |-> b, sem |-> sm, maxRequests |-> n,
                   window |-> 1, heap |-> hp]
    /\ EngineFresh

\* What a TryAccept hands to its caller.
Return(c, ok, allow, err) ==
    /\ calls' = [calls EXCEPT ![c] = IdleCall]
    /\ lastRet' = [ok |-> ok, allow |-> allow, err |-> err, returned |-> TRUE]

\* ratebroker.go:192: an event is handed to publishEvent.
TryAccept_submits_WithoutBroker(allow) == allow

TryAccept_submits(allow) == allow /\ rb.broker

\* ratebroker.go:200-206: the decision returned once publishEvent is back.
TryAccept_returns_FailsOnError(allow, err) == allow /\ ~err

TryAccept_returns(allow, err) == allow

TryAccept_begin(c, key) ==
    /\ ~crashed
    /\ calls[c].pc = "idle"
    /\ nCalls < MaxTry
    /\ nCalls' = nCalls + 1
    /\ calls' = [calls EXCEPT ![c] =
                   [pc |-> IF getLimiter(key) = 0 THEN "create" ELSE "try",
                    key |-> key, t |-> timeNow, ul |-> getLimiter(key),
                    cancelled |-> FALSE, sub |-> <<>>]]
    /\ UNCHANGED <<rl, hl, lastOp, clock, firstT, denied, accR, accH, nPre, ntp, rb, timeNow, objs, cache, lastRet, semHeld, pubCalls, queue,
                   chClosed, crashed, lastPub, flush, pubHeld, xadds, ctxDone,
                   stream, nRemote, cons, handlers, sideVars>>

TryAccept_create(c) ==
    /\ ~crashed
    /\ calls[c].pc = "create"
    /\ objs' = Append(objs, newLimiterFunc)
    /\ cache' = [cache EXCEPT ![calls[c].key] = Len(objs) + 1]
    /\ calls' = [calls EXCEPT ![c].pc = "try", ![c].ul = Len(objs) + 1]
    /\ UNCHANGED <<limVars, ntp, rb, timeNow, lastRet, semHeld, pubCalls, queue,
                   chClosed, crashed, lastPub, flush, pubHeld, xadds, ctxDone,
                   stream, nRemote, cons, handlers>>

TryAccept_try(c) ==
    LET call == calls[c]
        r == Limiter_TryAccept(objs[call.ul], call.t)
        message == Message(rb.id, call.key, call.t)
    IN  /\ ~crashed
        /\ call.pc = "try"
        /\ objs' = [objs EXCEPT ![call.ul] = r.lim]
        /\ IF ~r.ok
           THEN Return(c, FALSE, FALSE, FALSE)
           ELSE IF TryAccept_submits(r.ok)
           THEN /\ calls' = [calls EXCEPT ![c].pc = "publish",
                                          ![c].sub = <<message>>]
                /\ UNCHANGED lastRet
           ELSE Return(c, TRUE, TRUE, FALSE)
        /\ UNCHANGED <<limVars, ntp, rb, timeNow, cache, semHeld, pubCalls, queue,
                       chClosed, crashed, lastPub, flush, pubHeld, xadds, ctxDone,
                       stream, nRemote, cons, handlers>>

\* publishEvent: a permit (when rb.sem is set), then the goroutine that calls
\* rb.broker.Publish under a deadline of its own.
publishEvent_go(c) ==
    /\ ~crashed
    /\ calls[c].pc = "publish"
    /\ ~rb.sem \/ semHeld < MaxThreads
    /\ semHeld' = IF rb.sem THEN semHeld + 1 ELSE semHeld
    /\ pubCalls' = pubCalls (+) SetToBag({[msg |-> calls[c].sub[1],
                                           ctx |-> "deadline", eng |-> TRUE]})
    /\ Return(c, TryAccept_returns(TRUE, FALSE), TRUE, FALSE)
    /\ UNCHANGED <<limVars, ntp, rb, timeNow, objs, cache, queue,
                   chClosed, crashed, lastPub, flush, pubHeld, xadds, ctxDone,
                   stream, nRemote, cons, handlers>>

\* publishEvent: rb.sem.Acquire(ctx, 1) gives up because the caller's ctx is done.
publishEvent_acquireFails(c) ==
    /\ ~crashed
    /\ calls[c].pc = "publish"
    /\ rb.sem /\ semHeld >= MaxThreads
    /\ calls[c].cancelled
    /\ Return(c, TryAccept_returns(TRUE, TRUE), TRUE, TRUE)
    /\ UNCHANGED <<limVars, ntp, rb, timeNow, objs, cache, semHeld, pubCalls, queue,
                   chClosed, crashed, lastPub, flush, pubHeld, xadds, ctxDone,
                   stream, nRemote, cons, handlers>>

\* The caller's own context is cancelled while its TryAccept is in publishEvent.
CancelCaller(c) ==
    /\ ~crashed
    /\ calls[c].pc = "publish"
    /\ ~calls[c].cancelled
    /\ calls' = [calls EXCEPT ![c].cancelled = TRUE]
    /\ UNCHANGED <<limVars, ntp, rb, timeNow, objs, cache, lastRet, semHeld, pubCalls, queue,
                   chClosed, crashed, lastPub, flush, pubHeld, xadds, ctxDone,
                   stream, nRemote, cons, handlers>>

TickUpTo(max) ==
    /\ ~crashed
    /\ timeNow < max
    /\ timeNow' = timeNow + 1
    /\ UNCHANGED <<limVars, ntp, rb, objs, cache, calls, lastRet, semHeld, pubCalls, queue,
                   chClosed, crashed, lastPub, flush, pubHeld, xadds, ctxDone,
                   stream, nRemote, cons, handlers>>

Tick == TickUpTo(MaxClock)


\* -------------------------------------------- RedisMessageBroker.Publish
\* A call of Publish(ctx, msg) that has not returned: p.ctx is "background"
\* (never done), "cancelled" (done before the call) or "deadline" (done once the
\* call has waited for its timeout); p.eng tells the engine's goroutine, which
\* releases its permit of rb.sem when Publish is back.
Release(p) == IF p.eng /\ rb.sem THEN semHeld - 1 ELSE semHeld

\* The send case of the select can proceed.
SendReady == ~chClosed /\ Len(queue) < QueueCap

\* The ctx.Done() case of the select can proceed.
DoneReady(p) ==
    \/ p.ctx = "cancelled"
    \/ p.ctx = "deadline" /\ ~SendReady

\* msgbroker.go:207-211: the error of the ctx.Done() branch.
Publish_doneError(ctx) ==
    IF ctx = "cancelled" THEN "nil" ELSE "DeadlineExceeded"

\* A test or another user of the broker calls Publish itself.
Publish_call(ctx, k) ==
    /\ ~crashed
    /\ rb.broker
    /\ BagCardinality(pubCalls) - semHeld < MaxDirect
    /\ pubCalls' = pubCalls (+) SetToBag({[msg |-> Message(Other, k, timeNow),
                                           ctx |-> ctx, eng |-> FALSE]})
    /\ UNCHANGED <<limVars, ntp, rb, timeNow, objs, cache, calls, lastRet, semHeld, queue,
                   chClosed, crashed, lastPub, flush, pubHeld, xadds, ctxDone,
                   stream, nRemote, cons, handlers>>

\* case r.publishChannel <- msg: return nil
Publish_send(p) ==
    /\ ~crashed
    /\ BagIn(p, pubCalls)
    /\ SendReady
    /\ queue' = Append(queue, p.msg)
    /\ pubCalls' = pubCalls (-) SetToBag({p})
    /\ semHeld' = Release(p)
    /\ lastPub' = [ctx |-> p.ctx, err |-> "nil", enq |-> TRUE, full |-> FALSE]
    /\ UNCHANGED <<limVars, ntp, rb, timeNow, objs, cache, calls, lastRet,
                   chClosed, crashed, flush, pubHeld, xadds, ctxDone,
                   stream, nRemote, cons, handlers>>

\* case <-ctx.Done(): close(r.publishChannel), then nil or ctx.Err()
Publish_done(p) ==
    /\ ~crashed
    /\ BagIn(p, pubCalls)
    /\ DoneReady(p)
    /\ ~chClosed
    /\ chClosed' = TRUE
    /\ pubCalls' = pubCalls (-) SetToBag({p})
    /\ semHeld' = Release(p)
    /\ lastPub' = [ctx |-> p.ctx, err |-> Publish_doneError(p.ctx), enq |-> FALSE,
                   full |-> Len(queue) >= QueueCap]
    /\ UNCHANGED <<limVars, ntp, rb, timeNow, objs, cache, calls, lastRet, queue,
                   crashed, flush, pubHeld, xadds, ctxDone,
                   stream, nRemote, cons, handlers>>

\* On a closed channel the send panics (also for a sender that was waiting when
\* the channel was closed), and so does a second close: the process dies.
Publish_panic(p) ==
    /\ ~crashed
    /\ BagIn(p, pubCalls)
    /\ chClosed
    /\ crashed' = TRUE
    /\ UNCHANGED <<limVars, ntp, rb, timeNow, objs, cache, calls, lastRet, semHeld,
                   pubCalls, queue, chClosed, lastPub, flush, pubHeld, xadds,
                   ctxDone, stream, nRemote, cons, handlers>>

\* --------------------------------------- RedisMessageBroker.StartPublisher
\* A receive from publishChannel can proceed: a buffered event, or the zero
\* event of a closed channel.
RecvReady == Len(queue) > 0 \/ chClosed
Recv == IF Len(queue) > 0 THEN Head(queue) ELSE ZeroEvent
AfterRecv == IF Len(queue) > 0 THEN Tail(queue) ELSE queue

\* Block until we receive the first message.
StartPublisher_first ==
    /\ ~crashed
    /\ rb.broker
    /\ flush.pc = "first"
    /\ RecvReady
    /\ flush' = [flush EXCEPT !.pc = "gather", !.events = <<Recv>>, !.i = 0]
    /\ queue' = AfterRecv
    /\ UNCHANGED <<limVars, ntp, rb, timeNow, objs, cache, calls, lastRet, semHeld,
                   pubCalls, chClosed, crashed, lastPub, pubHeld, xadds, ctxDone,
                   stream, nRemote, cons, handlers>>

\* One turn of `for i := 0; i < batchSize; i++`: another event that is ready,
\* or the default case, which ends the loop.
StartPublisher_gather ==
    /\ ~crashed
    /\ flush.pc = "gather"
    /\ IF flush.i < BatchSize /\ RecvReady
       THEN /\ flush' = [flush EXCEPT !.events = Append(@, Recv), !.i = @ + 1]
            /\ queue' = AfterRecv
       ELSE /\ flush' = [flush EXCEPT !.pc = "acquire"]
            /\ UNCHANGED queue
    /\ UNCHANGED <<limVars, ntp, rb, timeNow, objs, cache, calls, lastRet, semHeld,
                   pubCalls, chClosed, crashed, lastPub, pubHeld, xadds, ctxDone,
                   stream, nRemote, cons, handlers>>

\* case <-ctx.Done(): return nil, in either select.
StartPublisher_cancelled ==
    /\ ~crashed
    /\ rb.broker
    /\ flush.pc \in {"first", "gather"}
    /\ ctxDone
    /\ flush' = [flush EXCEPT !.pc = "done", !.err = FALSE]
    /\ UNCHANGED <<limVars, ntp, rb, timeNow, objs, cache, calls, lastRet, semHeld,
                   pubCalls, queue, chClosed, crashed, lastPub, pubHeld, xadds,
                   ctxDone, stream, nRemote, cons, handlers>>

\* r.sem.Acquire, the goroutine that publishes the batch, and the ctx check at
\* the top of the next turn.
StartPublisher_go ==
    /\ ~crashed
    /\ flush.pc = "acquire"
    /\ pubHeld < PubThreads
    /\ pubHeld' = pubHeld + 1
    /\ xadds' = xadds (+) SetToBag({flush.events})
    /\ flush' = [flush EXCEPT !.pc = IF ctxDone THEN "done" ELSE "first",
                              !.events = <<>>, !.i = 0]
    /\ UNCHANGED <<limVars, ntp, rb, timeNow, objs, cache, calls, lastRet, semHeld,
                   pubCalls, queue, chClosed, crashed, lastPub, ctxDone,
                   stream, nRemote, cons, handlers>>

\* r.sem.Acquire(ctx, 1) gives up: StartPublisher returns its error.
StartPublisher_acquireFails ==
    /\ ~crashed
    /\ flush.pc = "acquire"
    /\ pubHeld >= PubThreads
    /\ ctxDone
    /\ flush' = [flush EXCEPT !.pc = "done", !.err = TRUE]
    /\ UNCHANGED <<limVars, ntp, rb, timeNow, objs, cache, calls, lastRet, semHeld,
                   pubCalls, queue, chClosed, crashed, lastPub, pubHeld, xadds,
                   ctxDone, stream, nRemote, cons, handlers>>

\* The background publish of one batch: XADD appends it to the stream, or fails
\* (an error of the client, the deadline, the cancelled ctx); the permit goes back.
publish_ok(b) ==
    /\ ~crashed
    /\ BagIn(b, xadds)
    /\ ~ctxDone
    /\ Len(stream) < MaxStream
    /\ stream' = Append(stream, b)
    /\ xadds' = xadds (-) SetToBag({b})
    /\ pubHeld' = pubHeld - 1
    /\ UNCHANGED <<limVars, ntp, rb, timeNow, objs, cache, calls, lastRet, semHeld,
                   pubCalls, queue, chClosed, crashed, lastPub, flush, ctxDone,
                   nRemote, cons, handlers>>

publish_fails_KeepsPermit(b) ==
    /\ ~crashed
    /\ BagIn(b, xadds)
    /\ xadds' = xadds (-) SetToBag({b})
    /\ UNCHANGED <<limVars, ntp, rb, timeNow, objs, cache, calls, lastRet, semHeld,
                   pubCalls, queue, chClosed, crashed, lastPub, flush, ctxDone,
                   stream, nRemote, cons, handlers, pubHeld>>

publish_fails(b) ==
    /\ ~crashed
    /\ BagIn(b, xadds)
    /\ xadds' = xadds (-) SetToBag({b})
    /\ pubHeld' = pubHeld - 1
    /\ UNCHANGED <<limVars, ntp, rb, timeNow, objs, cache, calls, lastRet, semHeld,
                   pubCalls, queue, chClosed, crashed, lastPub, flush, ctxDone,
                   stream, nRemote, cons, handlers>>

\* Another instance appends a batch of one event of its own.
RemoteAppendUpTo(k, max) ==
    /\ ~crashed
    /\ rb.broker
    /\ nRemote < max
    /\ Len(stream) < MaxStream
    /\ nRemote' = nRemote + 1
    /\ stream' = Append(stream, <<Message(Other, k, timeNow)>>)
    /\ UNCHANGED <<limVars, ntp, rb, timeNow, objs, cache, calls, lastRet, semHeld,
                   pubCalls, queue, chClosed, crashed, lastPub, flush, pubHeld,
                   xadds, ctxDone, cons, handlers>>

RemoteAppend(k) == RemoteAppendUpTo(k, MaxRemote)

\* The context handed to Start is cancelled.
CancelCtx ==
    /\ ~crashed
    /\ rb.broker
    /\ ~ctxDone
    /\ ctxDone' = TRUE
    /\ UNCHANGED <<limVars, ntp, rb, timeNow, objs, cache, calls, lastRet, semHeld,
                   pubCalls, queue, chClosed, crashed, lastPub, flush, pubHeld,
                   xadds, stream, nRemote, cons, handlers>>

\* ---------------------------------------------- RedisMessageBroker.Consume
\* The records an XRead from lastMessageID returns: at most ReadCount of them.
ReadIds ==
    {i \in 1..Len(stream) : i > cons.lastMessageID /\ i <= cons.lastMessageID + ReadCount}

RECURSIVE EventsOf(_, _)
EventsOf(rec, i) ==
    IF i > Len(rec) THEN EmptyBag
    ELSE SetToBag({[ev |-> rec[i], pc |-> "begin", ul |-> 0]}) (+) EventsOf(rec, i + 1)

RECURSIVE HandlersOf(_)
HandlersOf(ids) ==
    IF ids = {} THEN EmptyBag
    ELSE LET i == CHOOSE x \in ids : TRUE
         IN  EventsOf(stream[i], 1) (+) HandlersOf(ids \ {i})

\* lastMessageID = xMessage.ID sits inside the loop over the events of a record.
LastIdOf(ids) ==
    LET withEvents == {i \in ids : Len(stream[i]) > 0}
    IN  IF withEvents = {} THEN cons.lastMessageID
        ELSE CHOOSE m \in withEvents : \A x \in withEvents : x <= m

\* Records that are no batch of events.  A stream record is modelled by the
\* sequence of its events; these two stand for a record whose 'events' field is
\* not the JSON of a list of events, and for a record without an 'events' field.
Malformed == <<[BrokerID |-> "", Key |-> "malformed", Timestamp |-> 0]>>
NoEventsField == <<[BrokerID |-> "", Key |-> "no events field", Timestamp |-> 0]>>

\* json.Unmarshal returns an error on the one, the type assertion
\* xMessage.Values["events"].(string) panics on the other.
Undecodable(rec) == rec \in {Malformed, NoEventsField}

\* Another writer of the stream appends a record of any content: a batch of no
\* events, or a record that is no batch.
RawRecords == {<<>>, Malformed, NoEventsField}

RemoteAppendRaw(rec, max) ==
    /\ ~crashed
    /\ rb.broker
    /\ nRemote < max
    /\ Len(stream) < MaxStream
    /\ nRemote' = nRemote + 1
    /\ stream' = Append(stream, rec)
    /\ UNCHANGED <<limVars, ntp, rb, timeNow, objs, cache, calls, lastRet, semHeld,
                   pubCalls, queue, chClosed, crashed, lastPub, flush, pubHeld,
                   xadds, ctxDone, cons, handlers>>

\* The records of a read that the loop gets through: those before the first
\* one it cannot decode.
Decoded(ids) ==
    {i \in ids : \A j \in ids : j <= i => ~Undecodable(stream[j])}

FirstUndecodable(ids) ==
    LET bad == {i \in ids : Undecodable(stream[i])}
    IN  IF bad = {} THEN 0 ELSE CHOOSE m \in bad : \A x \in bad : m <= x

\* XRead returns records; one handler goroutine is started per event.  A record
\* without the field panics, a malformed one makes Consume return its error,
\* in both cases after the handlers of the records before it were started.
Consume_read ==
    /\ ~crashed
    /\ rb.broker
    /\ cons.pc = "read"
    /\ ~ctxDone
    /\ ReadIds # {}
    /\ LET bad == FirstUndecodable(ReadIds)
       IN  IF bad # 0 /\ stream[bad] = NoEventsField
           THEN /\ crashed' = TRUE
                /\ UNCHANGED <<cons, handlers>>
           ELSE /\ handlers' = handlers (+) HandlersOf(Decoded(ReadIds))
                /\ cons' = [pc |-> IF bad # 0 THEN "failed" ELSE "wait",
                            lastMessageID |-> LastIdOf(Decoded(ReadIds))]
                /\ UNCHANGED crashed
    /\ UNCHANGED <<limVars, ntp, rb, timeNow, objs, cache, calls, lastRet, semHeld,
                   pubCalls, queue, chClosed, lastPub, flush, pubHeld,
                   xadds, ctxDone, stream, nRemote>>

\* Backoff.ForAttempt: Min * Factor^attempt, at most Max.
RECURSIVE Backoff_ForAttempt(_)
Backoff_ForAttempt(attempt) ==
    IF attempt = 0 THEN BackoffMin
    ELSE LET d == BackoffFactor * Backoff_ForAttempt(attempt - 1)
         IN  IF d > BackoffMax THEN BackoffMax ELSE d

\* XRead fails with an error other than context.Canceled:
\* time.Sleep(r.backoff.Duration()); continue.  Duration() is ForAttempt of the
\* attempts counted so far, and counts one more; nothing calls Reset().
Consume_readFails ==
    /\ ~crashed
    /\ rb.broker
    /\ cons.pc = "read"
    /\ ~ctxDone
    /\ backoff.attempt < MaxFails
    /\ backoff' = [attempt |-> backoff.attempt + 1,
                   slept |-> Backoff_ForAttempt(backoff.attempt),
                   retries |-> IF backoff.at = cons.lastMessageID
                               THEN backoff.retries + 1 ELSE 1,
                   at |-> cons.lastMessageID]
    /\ UNCHANGED <<rl, hl, lastOp, clock, nCalls, firstT, denied, accR, accH, nPre,
                   twin, mutex, thr>>
    /\ UNCHANGED <<ntp, rb, timeNow, objs, cache, calls, lastRet, semHeld, pubCalls,
                   queue, chClosed, crashed, lastPub, flush, pubHeld, xadds, ctxDone,
                   stream, nRemote, cons, handlers>>

\* wg.Wait()
Consume_wait ==
    /\ ~crashed
    /\ cons.pc = "wait"
    /\ handlers = EmptyBag
    /\ cons' = [cons EXCEPT !.pc = "read"]
    /\ UNCHANGED <<limVars, ntp, rb, timeNow, objs, cache, calls, lastRet, semHeld,
                   pubCalls, queue, chClosed, crashed, lastPub, flush, pubHeld,
                   xadds, ctxDone, stream, nRemote, handlers>>

\* ctx.Err() at the top of the loop, or XRead returning context.Canceled.
Consume_cancelled ==
    /\ ~crashed
    /\ rb.broker
    /\ cons.pc = "read"
    /\ ctxDone
    /\ cons' = [cons EXCEPT !.pc = "done"]
    /\ UNCHANGED <<limVars, ntp, rb, timeNow, objs, cache, calls, lastRet, semHeld,
                   pubCalls, queue, chClosed, crashed, lastPub, flush, pubHeld,
                   xadds, ctxDone, stream, nRemote, handlers>>

\* ------------------------------------------- RateBroker.brokerHandleFunc
brokerHandleFunc_isSelf_Never(message) == FALSE

brokerHandleFunc_isSelf(message) == message.BrokerID = rb.id

brokerHandleFunc_isStale_Inclusive(message) ==
    message.Timestamp <= timeNow - rb.window

brokerHandleFunc_isStale(message) == message.Timestamp < timeNow - rb.window

Moved(h, h2) == (handlers (-) SetToBag({h})) (+) SetToBag({h2})

\* The two early returns, then getLimiter.
brokerHandleFunc_begin(h) ==
    /\ ~crashed
    /\ BagIn(h, handlers)
    /\ h.pc = "begin"
    /\ IF brokerHandleFunc_isSelf(h.ev) \/ brokerHandleFunc_isStale(h.ev)
       THEN handlers' = handlers (-) SetToBag({h})
       ELSE handlers' = Moved(h, [h EXCEPT
                !.pc = IF getLimiter(h.ev.Key) = 0 THEN "create" ELSE "accept",
                !.ul = getLimiter(h.ev.Key)])
    /\ UNCHANGED <<limVars, ntp, rb, timeNow, objs, cache, calls, lastRet, semHeld,
                   pubCalls, queue, chClosed, crashed, lastPub, flush, pubHeld,
                   xadds, ctxDone, stream, nRemote, cons>>

brokerHandleFunc_create(h) ==
    /\ ~crashed
    /\ BagIn(h, handlers)
    /\ h.pc = "create"
    /\ objs' = Append(objs, newLimiterFunc)
    /\ cache' = [cache EXCEPT ![h.ev.Key] = Len(objs) + 1]
    /\ handlers' = Moved(h, [h EXCEPT !.pc = "accept", !.ul = Len(objs) + 1])
    /\ UNCHANGED <<limVars, ntp, rb, timeNow, calls, lastRet, semHeld,
                   pubCalls, queue, chClosed, crashed, lastPub, flush, pubHeld,
                   xadds, ctxDone, stream, nRemote, cons>>

brokerHandleFunc_accept(h) ==
    /\ ~crashed
    /\ BagIn(h, handlers)
    /\ h.pc = "accept"
    /\ objs' = [objs EXCEPT ![h.ul] = Limiter_Accept(@, h.ev.Timestamp)]
    /\ handlers' = handlers (-) SetToBag({h})
    /\ UNCHANGED <<limVars, ntp, rb, timeNow, cache, calls, lastRet, semHeld,
                   pubCalls, queue, chClosed, crashed, lastPub, flush, pubHeld,
                   xadds, ctxDone, stream, nRemote, cons>>

\* ------------------------------------------------------ specifications
CtxKinds == {"background", "cancelled", "deadline"}

\* The decision engine on every key, started by RateBroker.Start, which runs
\* Consume alone: callers, the goroutines of publishEvent and their Publish
\* calls on a publishChannel that nothing drains.
InitEngine == InitRateBroker(BOOLEAN, BOOLEAN, 1..MaxReq, BOOLEAN)

NextEngine ==
    \/ \E c \in Callers, k \in Keys : TryAccept_begin(c, k)
    \/ \E c \in Callers : TryAccept_create(c)
    \/ \E c \in Callers : TryAccept_try(c)
    \/ \E c \in Callers : publishEvent_go(c)
    \/ \E c \in Callers : publishEvent_acquireFails(c)
    \/ \E c \in Callers : CancelCaller(c)
    \/ Tick
    \/ \E p \in BagToSet(pubCalls) : Publish_send(p)
    \/ \E p \in BagToSet(pubCalls) : Publish_done(p)
    \/ \E p \in BagToSet(pubCalls) : Publish_panic(p)

SpecEngine == InitEngine /\ [][NextEngine]_vars

\* The whole loop on one key, the broker started by its own Start: what the engine publishes reaches the stream,
\* beside what another instance appends, and comes back to its own handler.
InitLoop == InitRateBroker({TRUE}, {FALSE}, 1..MaxReq, BOOLEAN)

NextLoop ==
    \/ \E c \in Callers : TryAccept_begin(c, "a")
    \/ \E c \in Callers : TryAccept_create(c)
    \/ \E c \in Callers : TryAccept_try(c)
    \/ \E c \in Callers : publishEvent_go(c)
    \/ Tick
    \/ \E p \in BagToSet(pubCalls) : Publish_send(p)
    \/ \E p \in BagToSet(pubCalls) : Publish_done(p)
    \/ \E p \in BagToSet(pubCalls) : Publish_panic(p)
    \/ StartPublisher_first
    \/ StartPublisher_gather
    \/ StartPublisher_go
    \/ \E b \in BagToSet(xadds) : publish_ok(b)
    \/ \E b \in BagToSet(xadds) : publish_fails(b)
    \/ RemoteAppend("a")
    \/ Consume_read
    \/ Consume_wait
    \/ \E h \in BagToSet(handlers) : brokerHandleFunc_begin(h)
    \/ \E h \in BagToSet(handlers) : brokerHandleFunc_create(h)
    \/ \E h \in BagToSet(handlers) : brokerHandleFunc_accept(h)

SpecLoop == InitLoop /\ [][NextLoop]_vars

\* The consumer side alone: other instances append events on every key while
\* the clock runs on, and the handlers fold them in.
InitHandler == InitRateBroker({TRUE}, {FALSE}, 1..MaxReq, BOOLEAN)

NextHandler ==
    \/ \E k \in Keys : RemoteAppendUpTo(k, MaxStream)
    \/ TickUpTo(MaxLate)
    \/ Consume_read
    \/ Consume_wait
    \/ \E h \in BagToSet(handlers) : brokerHandleFunc_begin(h)
    \/ \E h \in BagToSet(handlers) : brokerHandleFunc_create(h)
    \/ \E h \in BagToSet(handlers) : brokerHandleFunc_accept(h)

SpecHandler == InitHandler /\ [][NextHandler]_vars

\* One publisher: Publish calls made one after the other while the clock runs,
\* so that a later timestamp tells a later enqueue, and the flush loop with its
\* background XADDs.
InitPublisher == InitRateBroker({TRUE}, {FALSE}, {1}, {FALSE})

NextPublisher ==
    \/ Publish_call("background", "a")
    \/ Tick
    \/ \E p \in BagToSet(pubCalls) : Publish_send(p)
    \/ StartPublisher_first
    \/ StartPublisher_gather
    \/ StartPublisher_go
    \/ \E b \in BagToSet(xadds) : publish_ok(b)
    \/ \E b \in BagToSet(xadds) : publish_fails(b)

SpecPublisher == InitPublisher /\ [][NextPublisher]_vars

\* An engine built with or without WithNTPServer; its clock is read while the
\* system time runs on and the server answers or not.
InitClock ==
    /\ InitCounters({1}, {1})
    /\ rb = [id |-> Self, broker |-> FALSE, sem |-> FALSE, maxRequests |-> 1,
             window |-> 1, heap |-> FALSE]
    /\ \E sv \in BOOLEAN : ntp = [LocalClock EXCEPT !.server = sv]
    /\ EngineState

NextClock ==
    \/ \E queryOk \in BOOLEAN, off \in (0 - MaxSkew)..MaxSkew : Now(queryOk, off)
    \/ TickUpTo(MaxLate)

SpecClock == InitClock /\ [][NextClock]_vars

\* The broker used directly, as its tests use it: Publish calls under every
\* kind of context, the publisher, and the cancellation of Start's context.
InitBroker == InitRateBroker({TRUE}, {FALSE}, {1}, {FALSE})

NextBroker ==
    \/ \E x \in CtxKinds : Publish_call(x, "a")
    \/ \E p \in BagToSet(pubCalls) : Publish_send(p)
    \/ \E p \in BagToSet(pubCalls) : Publish_done(p)
    \/ \E p \in BagToSet(pubCalls) : Publish_panic(p)
    \/ StartPublisher_first
    \/ StartPublisher_gather
    \/ StartPublisher_cancelled
    \/ StartPublisher_go
    \/ StartPublisher_acquireFails
    \/ \E b \in BagToSet(xadds) : publish_ok(b)
    \/ \E b \in BagToSet(xadds) : publish_fails(b)
    \/ CancelCtx

SpecBroker == InitBroker /\ [][NextBroker]_vars

\* The broker at work while the context of Start is never cancelled: Publish
\* calls under every kind of caller context, the flush loop and its background
\* publishes.  Each is a goroutine the Go scheduler keeps running: a select with
\* a ready case proceeds, the flush loop goes on, a publish comes back (at its
\* deadline at the latest).
Publish_step == \E p \in BagToSet(pubCalls) : Publish_send(p) \/ Publish_done(p) \/ Publish_panic(p)

publish_step == \E b \in BagToSet(xadds) : publish_ok(b) \/ publish_fails(b)

NextDeliver ==
    \/ \E x \in CtxKinds : Publish_call(x, "a")
    \/ \E p \in BagToSet(pubCalls) : Publish_send(p)
    \/ \E p \in BagToSet(pubCalls) : Publish_done(p)
    \/ \E p \in BagToSet(pubCalls) : Publish_panic(p)
    \/ StartPublisher_first
    \/ StartPublisher_gather
    \/ StartPublisher_go
    \/ \E b \in BagToSet(xadds) : publish_ok(b)
    \/ \E b \in BagToSet(xadds) : publish_fails(b)

SpecDeliver ==
    /\ InitBroker
    /\ [][NextDeliver]_vars
    /\ WF_vars(Publish_step)
    /\ WF_vars(StartPublisher_first)
    /\ WF_vars(StartPublisher_gather)
    /\ WF_vars(StartPublisher_go)
    /\ WF_vars(publish_step)

\* Both semaphores at work: an engine built WithMaxThreads whose callers publish
\* through a started broker, while the context of Start may be cancelled.
InitPermits == InitRateBroker({TRUE}, {TRUE}, {MaxReq}, {FALSE})

NextPermits ==
    \/ \E c \in Callers : TryAccept_begin(c, "a")
    \/ \E c \in Callers : TryAccept_create(c)
    \/ \E c \in Callers : TryAccept_try(c)
    \/ \E c \in Callers : publishEvent_go(c)
    \/ \E c \in Callers : publishEvent_acquireFails(c)
    \/ \E c \in Callers : CancelCaller(c)
    \/ TickUpTo(MaxLate)
    \/ \E p \in BagToSet(pubCalls) : Publish_send(p)
    \/ \E p \in BagToSet(pubCalls) : Publish_done(p)
    \/ \E p \in BagToSet(pubCalls) : Publish_panic(p)
    \/ StartPublisher_first
    \/ StartPublisher_gather
    \/ StartPublisher_cancelled
    \/ StartPublisher_go
    \/ StartPublisher_acquireFails
    \/ \E b \in BagToSet(xadds) : publish_ok(b)
    \/ \E b \in BagToSet(xadds) : publish_fails(b)
    \/ CancelCtx

SpecPermits == InitPermits /\ [][NextPermits]_vars

\* The consumer on a connection that fails now and then: other instances append
\* their events, XRead returns them or a transport error.
InitBackoff == InitRateBroker({TRUE}, {FALSE}, {1}, {FALSE})

NextBackoff ==
    \/ RemoteAppendUpTo("a", MaxStream)
    \/ Consume_read
    \/ Consume_readFails
    \/ Consume_wait
    \/ \E h \in BagToSet(handlers) : brokerHandleFunc_begin(h)
    \/ \E h \in BagToSet(handlers) : brokerHandleFunc_create(h)
    \/ \E h \in BagToSet(handlers) : brokerHandleFunc_accept(h)

SpecBackoff == InitBackoff /\ [][NextBackoff]_vars

\* The consumer on a stream that other writers fill with records of any kind.
InitConsumer == InitRateBroker({TRUE}, {FALSE}, {1}, {FALSE})

NextConsumer ==
    \/ \E k \in Keys : RemoteAppendUpTo(k, MaxStream)
    \/ \E rec \in RawRecords : RemoteAppendRaw(rec, MaxStream)
    \/ Consume_read
    \/ Consume_wait
    \/ \E h \in BagToSet(handlers) : brokerHandleFunc_begin(h)
    \/ \E h \in BagToSet(handlers) : brokerHandleFunc_create(h)
    \/ \E h \in BagToSet(handlers) : brokerHandleFunc_accept(h)

SpecConsumer == InitConsumer /\ [][NextConsumer]_vars

\* ------------------------------------------------------- counter claims
TryKinds == {"TryAccept", "TryAcceptWithInfo"}

RECURSIVE SumAcc(_, _, _)
SumAcc(acc, a, b) ==
    IF a > b \/ a > MaxTime THEN 0 ELSE acc[a] + SumAcc(acc, a + 1, b)

Count(s, v) == Cardinality({i \in DOMAIN s : s[i] = v})

Occupied(r) == {p \in DOMAIN r.ring : r.ring[p] # Nil}

\* The oldest timestamp a counter retains (Nil when it retains none).
OldestOf(S) == IF S = {} THEN Nil ELSE CHOOSE m \in S : \A x \in S : m <= x
RingOldest(r) == OldestOf({r.ring[p] : p \in Occupied(r)})
HeapOldest(h) == OldestOf({h.pq[i] : i \in DOMAIN h.pq})

\* C1: with only TryAccept / TryAcceptWithInfo at non-decreasing times, no
\* closed interval [a, a + W] of time holds more than N accepted requests,
\* for the ring and for the heap.
C1_WindowBound ==
    \A a \in Times :
        /\ SumAcc(accR, a, a + rl.window) <= rl.size
        /\ SumAcc(accH, a, a + hl.window) <= hl.size

\* C1 witness: a window that is exactly full on both counters, after a denial.
C1_Witness ==
    /\ denied
    /\ \E a \in Times :
          /\ SumAcc(accR, a, a + rl.window) = rl.size
          /\ SumAcc(accH, a, a + hl.window) = hl.size

\* C2: from a fresh counter, while every call lies within W of the first call,
\* the k-th call returns true exactly when k <= N; and a call made more than W
\* after the oldest retained timestamp returns true.
C2_FirstNThenDenied ==
    [][ lastOp'.kind \in TryKinds =>
          /\ (clock' - firstT' <= rl.window =>
                /\ lastOp'.rOk = (nCalls' <= rl.size)
                /\ lastOp'.hOk = (nCalls' <= hl.size))
          /\ (RingOldest(rl) # Nil /\ lastOp'.t - RingOldest(rl) > rl.window
                => lastOp'.rOk)
          /\ (HeapOldest(hl) # Nil /\ lastOp'.t - HeapOldest(hl) > hl.window
                => lastOp'.hOk) ]_vars

\* C2 witness: a call accepted again, after a denial, once the window of the
\* first call has passed.
C2_Witness ==
    /\ denied
    /\ nCalls > rl.size
    /\ clock - firstT > rl.window
    /\ lastOp.kind = "TryAccept"
    /\ lastOp.rOk /\ lastOp.hOk

\* C3: a TryAccept(t) that returns false records nothing (ring: slots and cursor
\* unchanged; heap: no timestamp added); one that returns true records exactly
\* one timestamp, t.
C3_DeniedNotRecorded ==
    [][ lastOp'.kind = "TryAccept" =>
          /\ (~lastOp'.rOk => rl'.ring = rl.ring /\ rl'.cur = rl.cur)
          /\ (lastOp'.rOk =>
                /\ rl'.ring[rl.cur] = lastOp'.t
                /\ \A p \in DOMAIN rl.ring : p # rl.cur => rl'.ring[p] = rl.ring[p])
          /\ (~lastOp'.hOk =>
                \A v \in Times : Count(hl'.pq, v) <= Count(hl.pq, v))
          /\ (lastOp'.hOk =>
                /\ Count(hl'.pq, lastOp'.t) = Count(hl.pq, lastOp'.t) + 1
                /\ \A v \in Times \ {lastOp'.t} :
                      Count(hl'.pq, v) <= Count(hl.pq, v)) ]_vars

\* C3 witness: a TryAccept denied by both counters.
C3_Witness ==
    /\ lastOp.kind = "TryAccept"
    /\ ~lastOp.rOk /\ ~lastOp.hOk

\* C4: after any sequence of TryAccept, TryAcceptWithInfo and Accept, a counter
\* retains at most N timestamps, the heap as well as the ring.
C4_RetainedAtMostN ==
    /\ Cardinality(Occupied(rl)) <= rl.size
    /\ Len(hl.pq) <= hl.size

\* -------------------------------------------------------- engine claims
\* The timestamps a counter of the engine retains, and the decision it would
\* give for a request at t.
Retained(l) ==
    IF l.heap THEN {l.s.pq[i] : i \in DOMAIN l.s.pq}
    ELSE {l.s.ring[p] : p \in Occupied(l.s)}

IsSelfTask(h) == h.ev.BrokerID = rb.id

\* C5: an event whose BrokerID is the engine's own id changes no counter when
\* it comes back from the stream: its handler never gets past the first check
\* (no counter looked up, created or written), and the step that ends it leaves
\* every counter and the cache as they were.
C5_SelfEventIgnored ==
    [][ /\ \A h \in BagToSet(handlers') : IsSelfTask(h) => h.pc = "begin"
        /\ \A h \in BagToSet(handlers) :
              IsSelfTask(h) /\ CopiesIn(h, handlers') < CopiesIn(h, handlers)
                  => objs' = objs /\ cache' = cache ]_vars

\* C5 witness: a record holding an event of the engine itself was read from
\* the stream, the event was not stale, and all its handlers are done.
C5_Witness ==
    /\ handlers = EmptyBag
    /\ \E i \in 1..cons.lastMessageID : \E j \in DOMAIN stream[i] :
          /\ stream[i][j].BrokerID = rb.id
          /\ ~brokerHandleFunc_isStale(stream[i][j])

\* C6: a TryAccept submits an event for publication exactly when the request
\* is accepted and a broker is configured; the event carries the engine's id,
\* the key of the request and the timestamp just recorded in the counter, and
\* it is the one event handed to Publish.  A denied request, or an engine
\* without a broker, submits nothing.
C6_SubmitsIffAccepted ==
    [][ \A c \in Callers :
          LET call == calls[c]
              event == Message(rb.id, call.key, call.t)
          IN  /\ (call.pc = "try" /\ calls'[c] # call =>
                    LET accepted == Limiter_TryAccept(objs[call.ul], call.t).ok
                    IN  /\ (calls'[c].pc = "publish") = (accepted /\ rb.broker)
                        /\ (calls'[c].pc = "publish" =>
                              /\ calls'[c].sub = <<event>>
                              /\ call.t \in Retained(objs'[call.ul]))
                        /\ (calls'[c].pc # "publish" => calls'[c].pc = "idle")
                        /\ pubCalls' = pubCalls)
              /\ (call.pc = "publish" /\ calls'[c].pc = "idle" =>
                    \/ pubCalls' = pubCalls (+) SetToBag({[msg |-> event,
                                             ctx |-> "deadline", eng |-> TRUE]})
                    \/ lastRet'.err /\ pubCalls' = pubCalls)
              /\ (call.pc # "publish" =>
                    \A p \in BagToSet(pubCalls') :
                        p.eng => CopiesIn(p, pubCalls') <= CopiesIn(p, pubCalls)) ]_vars

\* C6 witness: an accepted request on an engine with a broker, its event
\* submitted, beside an earlier event already handed to Publish.
C6_Witness ==
    \E c \in Callers :
        /\ calls[c].pc = "publish"
        /\ rb.broker
        /\ calls[c].sub = <<Message(rb.id, calls[c].key, calls[c].t)>>
        /\ calls[c].t \in Retained(objs[calls[c].ul])
        /\ Len(queue) > 0

\* C7: the decision TryAccept returns is the decision of the counter: true for
\* an accepted request whatever becomes of the publication, false for a denied
\* one.
C7_DecisionIsCounters ==
    lastRet.returned => lastRet.ok = lastRet.allow

\* C7 witness: an accepted request returned true although publishEvent failed
\* (no permit before the caller's context was done).
C7_Witness ==
    /\ lastRet.returned
    /\ lastRet.allow /\ lastRet.err
    /\ lastRet.ok

\* C8: Publish does not block: a Publish that finds the queue full returns a
\* 'channel full' error.
C8_PublishChannelFull ==
    lastPub.full => lastPub.err = "channel full"

\* C9: a Publish called with a context that is already cancelled, and that
\* enqueues nothing, returns context.Canceled.
C9_PublishCancelled ==
    lastPub.ctx = "cancelled" /\ ~lastPub.enq => lastPub.err = "Canceled"

\* C10: TryAccept always returns a decision to its caller, whatever the broker
\* does: the process never dies while a TryAccept is under way.
C10_TryAcceptReturns ==
    crashed => \A c \in Callers : calls[c].pc = "idle"

\* C11: get-or-create of the counter of a key yields one counter, also when a
\* caller and a handler race: the factory has run at most once per cached key,
\* and every task about to record a timestamp holds the counter the cache
\* holds for its key.
C11_OneCounterPerKey ==
    /\ Len(objs) <= Cardinality({k \in Keys : cache[k] # 0})
    /\ \A c \in Callers : calls[c].pc = "try" => calls[c].ul = cache[calls[c].key]
    /\ \A h \in BagToSet(handlers) : h.pc = "accept" => h.ul = cache[h.ev.Key]

Max0(x) == IF x > 0 THEN x ELSE 0

\* C12: with k events of other instances folded in before any local decision,
\* and every timestamp within one window, the local calls accept exactly
\* max(N - k, 0) requests and deny the rest: the j-th local call is accepted
\* exactly when j <= N - k, on the ring and on the heap.
C12_PreloadLeavesNMinusK ==
    [][ lastOp'.kind \in TryKinds /\ clock' - firstT' <= rl.window =>
          /\ lastOp'.rOk = (nCalls' <= Max0(rl.size - nPre))
          /\ lastOp'.hOk = (nCalls' <= Max0(hl.size - nPre))
          /\ (~lastOp'.rOk => SumAcc(accR', 0, MaxTime) = Max0(rl.size - nPre))
          /\ (~lastOp'.hOk => SumAcc(accH', 0, MaxTime) = Max0(hl.size - nPre)) ]_vars

\* C12 witness: one event folded into counters of capacity 2, then one local
\* call accepted and the next one denied, all within the window.
C12_Witness ==
    /\ nPre = 1 /\ rl.size = 2
    /\ nCalls = 2
    /\ clock - firstT <= rl.window
    /\ SumAcc(accR, 0, MaxTime) = 1 /\ SumAcc(accH, 0, MaxTime) = 1
    /\ lastOp.kind \in TryKinds /\ ~lastOp.rOk /\ ~lastOp.hOk

\* A step in which the handler task h moves on.
Advances(h) == CopiesIn(h, handlers') < CopiesIn(h, handlers)

\* C13: the handler of an event of another instance that is not stale gets the
\* counter of the event's key, creating and caching it when the cache has none,
\* and records the timestamp of the event itself, unconditionally: the
\* timestamp is written also into a full counter (the slot under the ring's
\* cursor is overwritten, the heap grows by one entry).
C13_RemoteEventAccepted ==
    [][ \A h \in BagToSet(handlers) :
          /\ (h.pc = "begin" /\ Advances(h) /\ ~IsSelfTask(h)
                  /\ ~(h.ev.Timestamp < timeNow - rb.window) =>
                handlers' = (handlers (-) SetToBag({h})) (+) SetToBag({
                    [h EXCEPT !.ul = cache[h.ev.Key],
                              !.pc = IF cache[h.ev.Key] = 0 THEN "create"
                                     ELSE "accept"]}))
          /\ (h.pc = "create" /\ Advances(h) =>
                /\ cache'[h.ev.Key] = Len(objs')
                /\ Retained(objs'[Len(objs')]) = {}
                /\ handlers' = (handlers (-) SetToBag({h})) (+) SetToBag({
                      [h EXCEPT !.pc = "accept", !.ul = Len(objs')]}))
          /\ (h.pc = "accept" /\ Advances(h) =>
                LET before == objs[h.ul].s
                    after == objs'[h.ul].s
                IN  IF objs[h.ul].heap
                    THEN /\ Len(after.pq) = Len(before.pq) + 1
                         /\ Count(after.pq, h.ev.Timestamp)
                               = Count(before.pq, h.ev.Timestamp) + 1
                    ELSE /\ after.ring[before.cur] = h.ev.Timestamp
                         /\ after.cur = RingNext(before, before.cur)) ]_vars

\* C13 witness: an event of another instance, stamped earlier than the local
\* clock reads now, was handled and sits in a heap counter that holds more
\* than maxRequests timestamps.
C13_Witness ==
    /\ handlers = EmptyBag
    /\ \E i \in 1..cons.lastMessageID : \E j \in DOMAIN stream[i] :
          LET ev == stream[i][j]
          IN  /\ ev.BrokerID = Other
              /\ ev.Timestamp # timeNow
              /\ cache[ev.Key] # 0
              /\ objs[cache[ev.Key]].heap
              /\ ev.Timestamp \in Retained(objs[cache[ev.Key]])
              /\ Len(objs[cache[ev.Key]].s.pq) > rb.maxRequests

\* C14: the handler discards an event whose timestamp is earlier than
\* Now() - W, leaving every counter and the cache as they were; an event
\* stamped Now() - W or later is not discarded as stale (one of another
\* instance goes on to the counter of its key).
C14_StaleDiscarded ==
    [][ \A h \in BagToSet(handlers) :
          h.pc = "begin" /\ Advances(h) =>
            /\ objs' = objs /\ cache' = cache
            /\ (h.ev.Timestamp < timeNow - rb.window =>
                  handlers' = handlers (-) SetToBag({h}))
            /\ (h.ev.Timestamp >= timeNow - rb.window /\ ~IsSelfTask(h) =>
                  \E pc \in {"create", "accept"} :
                      handlers' = (handlers (-) SetToBag({h}))
                                     (+) SetToBag({[h EXCEPT !.pc = pc,
                                                   !.ul = cache[h.ev.Key]]})) ]_vars

\* C14 witness: an event of another instance that was stale when its handler
\* ran is done with, and its key has no counter.
C14_Witness ==
    /\ handlers = EmptyBag
    /\ cons.pc = "read"
    /\ \E i \in 1..cons.lastMessageID : \E j \in DOMAIN stream[i] :
          /\ stream[i][j].BrokerID = Other
          /\ stream[i][j].Timestamp < timeNow - rb.window
          /\ cache[stream[i][j].Key] = 0

\* C15: with N = 0 every TryAccept and TryAcceptWithInfo, on the ring and on
\* the heap, returns false and records nothing; none of them panics.
C15_ZeroCapacityDenies ==
    rl.size = 0 =>
        /\ ~crashed
        /\ ~lastOp.rOk /\ ~lastOp.hOk
        /\ Occupied(rl) = {} /\ Len(hl.pq) = 0

\* C16: with W = 0 every TryAccept and TryAcceptWithInfo, on the ring and on
\* the heap, returns false, the first call on a fresh counter included.
C16_ZeroWindowDenies ==
    rl.window = 0 => ~lastOp.rOk /\ ~lastOp.hOk

\* C17: no counter and no engine exists with N <= 0 or W <= 0: construction
\* with such arguments fails.
C17_ConfigValidated ==
    /\ rl.size > 0 /\ rl.window > 0
    /\ hl.size > 0 /\ hl.window > 0
    /\ rb.maxRequests > 0 /\ rb.window > 0

\* The events of the stream in the order they were appended.
RECURSIVE Flat(_, _)
Flat(recs, i) == IF i > Len(recs) THEN <<>> ELSE recs[i] \o Flat(recs, i + 1)

\* C18: the events of one publisher are appended to the stream in the order it
\* enqueued them, within a batch and across batches: with its Publish calls made
\* one after the other, no event stands on the stream before an event that was
\* stamped, hence enqueued, earlier.
C18_StreamKeepsEnqueueOrder ==
    LET evs == Flat(stream, 1)
    IN  \A i, j \in DOMAIN evs :
            i < j /\ evs[i].BrokerID = evs[j].BrokerID
                => evs[i].Timestamp <= evs[j].Timestamp

\* C19: once the context is cancelled the loops end without an error,
\* whichever step they were in; for the flush loop: when StartPublisher is
\* over, it has returned nil.
C19_LoopsEndWithoutError ==
    flush.pc = "done" => ~flush.err

\* C20: Start launches the consume loop exactly when a broker is configured;
\* an engine without a broker runs no consumer and no handler, and its
\* TryAccept calls never publish: no call is in publishEvent, no Publish is
\* pending and nothing is enqueued.
C20_ConsumerIffBroker ==
    /\ (cons.pc # "off") = rb.broker
    /\ ~rb.broker =>
          /\ handlers = EmptyBag
          /\ \A c \in Callers : calls[c].pc # "publish" /\ calls[c].sub = <<>>
          /\ pubCalls = EmptyBag
          /\ queue = <<>>

\* C20 witness: an engine without a broker accepted a request and returned.
C20_Witness ==
    /\ ~rb.broker
    /\ cons.pc = "off"
    /\ lastRet.returned /\ lastRet.ok

\* C21: with the offset clock, once a refresh has succeeded, Now() returns the
\* system time plus the last known offset, also when a later refresh fails.
C21_KeepsLastOffset ==
    ntp.server /\ ntp.client.set /\ ntp.last.called
        => ntp.last.val = ntp.last.sys + ntp.client.ClockOffset

\* The RateLimitInfo a TryAcceptWithInfo at time t returns on the counters
\* as they stand.
RingInfo(t) == Ring_TryAcceptWithInfo(rl, t).info
HeapInfo(t) == Heap_TryAcceptWithInfo(hl, t).info

\* C22: after any sequence of TryAccept, TryAcceptWithInfo and Accept, the
\* RateLimitInfo of a TryAcceptWithInfo has Remaining in [0, N] and a Reset
\* that is not negative, on the ring and on the heap.
C22_InfoInRange ==
    [][ lastOp'.kind = "TryAcceptWithInfo" =>
          LET ri == RingInfo(lastOp'.t)
              hi == HeapInfo(lastOp'.t)
          IN  /\ ri.Remaining >= 0 /\ ri.Remaining <= rl.size /\ ri.Reset >= 0
              /\ hi.Remaining >= 0 /\ hi.Remaining <= hl.size /\ hi.Reset >= 0 ]_vars

\* C23: the RateLimitInfo of every TryAcceptWithInfo, accepted or denied,
\* carries Limit = N and Window = W of the counter that made it.
C23_InfoCarriesLimitAndWindow ==
    [][ lastOp'.kind = "TryAcceptWithInfo" =>
          LET ri == RingInfo(lastOp'.t)
              hi == HeapInfo(lastOp'.t)
          IN  /\ ri.Limit = rl.size /\ ri.Window = rl.window
              /\ hi.Limit = hl.size /\ hi.Window = hl.window ]_vars

\* C24: ring TryAccept(t) returns false exactly when the slot under the cursor
\* is occupied by a timestamp >= t - W (t - W itself counts as inside the
\* window), and then changes nothing; otherwise it returns true, writes t into
\* that slot, leaves the other slots alone and moves the cursor one slot on,
\* modulo N.
C24_RingFullnessTest ==
    [][ lastOp'.kind = "TryAccept" =>
          LET v == rl.ring[rl.cur]
              full == v # Nil /\ v >= lastOp'.t - rl.window
          IN  /\ lastOp'.rOk = ~full
              /\ (full => rl'.ring = rl.ring /\ rl'.cur = rl.cur)
              /\ (~full =>
                    /\ rl'.ring = [rl.ring EXCEPT ![rl.cur] = lastOp'.t]
                    /\ rl'.cur = (rl.cur % rl.size) + 1) ]_vars

\* C24 witness: a TryAccept denied on a slot whose timestamp is exactly t - W.
C24_Witness ==
    /\ lastOp.kind = "TryAccept"
    /\ ~lastOp.rOk
    /\ rl.ring[rl.cur] = lastOp.t - rl.window

\* The timestamps ts recorded so far with t - ts <= W.
RECURSIVE InWindow(_, _, _, _)
InWindow(acc, t, w, ts) ==
    IF ts > MaxTime THEN 0
    ELSE (IF t - ts <= w THEN acc[ts] ELSE 0) + InWindow(acc, t, w, ts + 1)

\* C25: at observation times that never decrease, heap TryAccept(t) returns
\* true exactly when fewer than N of all the timestamps recorded so far (by
\* TryAccept, TryAcceptWithInfo or Accept) have t - ts <= W; after the call the
\* heap holds no timestamp with t - ts > W.
C25_HeapCountsInWindow ==
    [][ lastOp'.kind = "TryAccept" =>
          /\ lastOp'.hOk = (InWindow(accH, lastOp'.t, hl.window, 0) < hl.size)
          /\ \A i \in DOMAIN hl'.pq : lastOp'.t - hl'.pq[i] <= hl.window ]_vars

\* C25 witness: a TryAccept accepted by a heap that has recorded more than N
\* timestamps, some of them folded in with Accept.
C25_Witness ==
    /\ lastOp.kind = "TryAccept" /\ lastOp.hOk
    /\ nPre > 0
    /\ SumAcc(accH, 0, MaxTime) > hl.size + 1

\* C26: in every state, those reached through Accept included: after a heap
\* TryAccept(t) that returned true the heap holds at most N timestamps; after
\* one that returned false it holds at least N, all of them inside the window
\* (t - ts <= W).
C26_HeapSizeAfterTryAccept ==
    [][ lastOp'.kind = "TryAccept" =>
          /\ (lastOp'.hOk => Len(hl'.pq) <= hl.size)
          /\ (~lastOp'.hOk =>
                /\ Len(hl'.pq) >= hl.size
                /\ \A i \in DOMAIN hl'.pq :
                      lastOp'.t - hl'.pq[i] <= hl.window) ]_vars

\* C26 witness: a TryAccept denied by a heap that Accept had filled beyond N.
C26_Witness ==
    /\ lastOp.kind = "TryAccept" /\ ~lastOp.hOk
    /\ Len(hl.pq) > hl.size

\* C27: in every state, those reached through Accept of remote timestamps and
\* through observation times that go backwards included: if ring TryAccept(t)
\* returns false, the timestamp in the slot under the cursor lies in the
\* closed interval [t - W, t].
C27_DeniedSlotInWindow ==
    [][ (lastOp'.kind = "TryAccept" /\ ~lastOp'.rOk) =>
          LET v == rl'.ring[rl'.cur]
          IN  /\ v # Nil
              /\ v >= lastOp'.t - rl.window
              /\ v <= lastOp'.t ]_vars

\* C28: the heap is order-insensitive: from any heap state and for any two
\* timestamps a and b, Accept(a); Accept(b) and Accept(b); Accept(a) lead to
\* states from which every later sequence of TryAccept and TryAcceptWithInfo
\* calls returns the same results, decision and RateLimitInfo alike.
C28_HeapOrderInsensitive ==
    twin.stage = "after" => twin.mine = twin.its

\* C28 witness: the two orders left the two arrays different, and a later call
\* was denied on both.
C28_Witness ==
    /\ twin.stage = "after"
    /\ twin.n > 0
    /\ twin.lim.pq # hl.pq
    /\ ~twin.mine.ok /\ ~twin.its.ok

\* The calls of the goroutines made one after the other, in the given order,
\* on a fresh counter: the counter they leave and the decision each one gets.
RECURSIVE RunInOrder(_, _, _)
RunInOrder(order, i, st) ==
    IF i > Len(order) THEN st
    ELSE LET g == order[i]
             r == Ring_TryAccept(st.rl, thr[g].t)
             h == Heap_TryAccept(st.hl, thr[g].t)
         IN  RunInOrder(order, i + 1,
                        IF rb.heap
                        THEN [rl |-> st.rl, hl |-> h.lim,
                              ok |-> [st.ok EXCEPT ![g] = h.ok]]
                        ELSE [rl |-> r.lim, hl |-> st.hl,
                              ok |-> [st.ok EXCEPT ![g] = r.ok]])

Orders == {o \in [1..MaxGo -> Goroutines] : \A i, j \in 1..MaxGo : o[i] = o[j] => i = j}

AllReturned == \A g \in Goroutines : thr[g].pc = "done"

OneWindow == \A g, h \in Goroutines : thr[g].t - thr[h].t <= rl.window

C29_Outcome ==
    AllReturned =>
        /\ (OneWindow => Cardinality({g \in Goroutines : thr[g].ok}) <= rl.size)
        /\ \E o \in Orders :
              RunInOrder(o, 1, [rl |-> NewRingLimiter(rl.size, rl.window),
                                hl |-> NewHeapLimiter(hl.size, hl.window),
                                ok |-> [g \in Goroutines |-> FALSE]])
                = [rl |-> rl, hl |-> hl, ok |-> [g \in Goroutines |-> thr[g].ok]]

\* C29: the calls on one counter are linearized by its lock: for every
\* interleaving of concurrent TryAccept calls whose timestamps lie in one
\* window at most N return true, the decisions and the counter left behind are
\* those of some sequential order of the same calls, and between the fullness
\* check of a call and its record no other call changes the counter.
C29_LinearizedByLock ==
    /\ []C29_Outcome
    /\ [][ \A g \in Goroutines :
              (thr[g].pc = "accept" /\ thr'[g].pc = "accept") =>
                  (rl' = rl /\ hl' = hl) ]_vars

\* C29 witness: every goroutine has returned, their timestamps lie in one
\* window, N calls were accepted and another one was denied.
C29_Witness ==
    /\ AllReturned
    /\ OneWindow
    /\ Cardinality({g \in Goroutines : thr[g].ok}) = rl.size
    /\ \E g \in Goroutines : ~thr[g].ok

\* C30: every batch the flush loop dispatches contains at least 1 and at most
\* B events (B = batchSize, 100 in the source): the first event it blocked for
\* plus at most B - 1 further events that were already available.
C30_BatchWithinSize ==
    \A b \in BagToSet(xadds) : Len(b) >= 1 /\ Len(b) <= BatchSize

\* C31: at every moment the background publishes in flight are at most M, the
\* width of the semaphore, and the permits held are exactly the publishes in
\* flight: each permit taken for a publish goes back once, when the publish
\* completes, whether it succeeds, fails or runs into its deadline.  This holds
\* of the broker's semaphore and of the engine's.
C31_PermitsMatchInFlight ==
    /\ pubHeld = BagCardinality(xadds)
    /\ pubHeld <= PubThreads
    /\ semHeld = BagCardinality(pubCalls)
    /\ semHeld <= MaxThreads

\* C31 witness: the broker's semaphore is exhausted while the engine holds
\* permits of its own, after a publish has completed.
C31_Witness ==
    /\ pubHeld = PubThreads
    /\ semHeld > 0
    /\ Len(stream) > 0

\* C32: cancelling the context of the broker does not abort a background
\* publish that was already dispatched: while the process lives and the stream
\* takes records, a publish in flight can still complete and append its batch,
\* also after the cancellation.
C32_InFlightSurvivesCancel ==
    (ctxDone /\ ~crashed /\ Len(stream) < MaxStream) =>
        \A b \in BagToSet(xadds) : ENABLED publish_ok(b)

\* The sleep the specification gives the k-th retry in a row.
RECURSIVE SleepOfRetry(_)
SleepOfRetry(k) ==
    IF k <= 1 THEN BackoffMin
    ELSE LET d == 2 * SleepOfRetry(k - 1)
         IN  IF d > BackoffMax THEN BackoffMax ELSE d

\* C33: the backoff of the consumer starts again on every successful read: the
\* sleep before the k-th retry in a row since the last successful read (or
\* since the start) is min(100 ms * 2^(k-1), 10 s), so the first transport
\* error after a successful read sleeps 100 ms.
C33_BackoffResetsOnRead ==
    [][ backoff'.attempt # backoff.attempt =>
            backoff'.slept = SleepOfRetry(backoff'.retries) ]_vars

\* The last record of the read the consumer is about to make.
LastRead == CHOOSE m \in ReadIds : \A x \in ReadIds : x <= m

\* A step of the consumer that handles the records of a read.
ReadStep == cons.pc = "read" /\ ReadIds # {} /\ (cons' # cons \/ crashed')

\* C34: when a record of the stream cannot be decoded (a malformed batch, or
\* the 'events' field missing or of the wrong type), the consumer skips the
\* record, moves its cursor past it and goes on consuming: it neither stops
\* nor crashes.
C34_UndecodableSkipped ==
    [][ (ReadStep /\ \E i \in ReadIds : Undecodable(stream[i])) =>
            /\ ~crashed'
            /\ cons'.pc = "wait"
            /\ cons'.lastMessageID = LastRead ]_vars

\* C35: once the consumer has dispatched the records of a read its cursor is
\* the id of the last record of that read, whatever the records hold, a batch
\* of no events included; the cursor never moves back, and no record comes
\* back in a second read.
C35_CursorAtLastRecord ==
    [][ (cons.pc = "read" /\ cons'.pc = "wait") =>
            /\ cons'.lastMessageID = LastRead
            /\ cons'.lastMessageID >= cons.lastMessageID ]_vars

\* C37: on each variant TryAccept(t) and TryAcceptWithInfo(t) make the same
\* decision and have the same effect: from every reachable state and for every
\* t both return the same boolean and leave the counter in the same state.
C37_SameDecisionAndEffect ==
    \A t \in Times :
        /\ Ring_panics(rl) \/
              LET a == Ring_TryAccept(rl, t)
                  b == Ring_TryAcceptWithInfo(rl, t)
              IN  a.ok = b.ok /\ a.lim = b.lim
        /\ ~Heap_TryAcceptWithInfo_panics(hl, t)
        /\ LET a == Heap_TryAccept(hl, t)
               b == Heap_TryAcceptWithInfo(hl, t)
           IN  a.ok = b.ok /\ a.lim = b.lim

\* C38: ring and heap are interchangeable for traffic that arrives in order: a
\* ring and a heap built with the same N >= 1 and W > 0 and given the same
\* TryAccept calls at timestamps that never decrease return the same boolean
\* at every step.
C38_RingAndHeapAgreeInOrder ==
    lastOp.kind = "TryAccept" => lastOp.rOk = lastOp.hOk

\* C38 witness: after more than N calls, a TryAccept that both deny on a
\* timestamp exactly W old.
C38_Witness ==
    /\ lastOp.kind = "TryAccept"
    /\ ~lastOp.rOk /\ ~lastOp.hOk
    /\ rl.ring[rl.cur] = lastOp.t - rl.window
    /\ Len(hl.pq) = hl.size
    /\ nCalls > rl.size + 1

\* The slots of a ring that are empty or hold a timestamp < t - W.
FreeSlots(r, t) ==
    Cardinality({p \in DOMAIN r.ring : r.ring[p] = Nil \/ r.ring[p] < t - r.window})

\* C36: the Remaining a ring TryAcceptWithInfo(t) reports describes the state
\* after the decision: it is the number of slots that are then empty or hold a
\* timestamp < t - W, in every reachable state, rings written out of timestamp
\* order by Accept included; on a fresh ring of size N the k-th call accepted
\* within the window reports N - k.
C36_RemainingCountsFreeSlots ==
    [][ lastOp'.kind = "TryAcceptWithInfo" =>
            RingInfo(lastOp'.t).Remaining = FreeSlots(rl', lastOp'.t) ]_vars

\* C39: a Publish that gives up because its context is done leaves the publish
\* queue usable: under every interleaving of Publish calls and the flush loop
\* the queue is never closed while the broker is in use, so no Publish sends on
\* a closed queue or closes it a second time (the process does not die), and
\* the flush loop never takes an event that no caller enqueued.
C39_QueueStaysUsable ==
    /\ ~chClosed
    /\ ~crashed
    /\ \A i \in DOMAIN flush.events : flush.events[i] # ZeroEvent

\* C40: while the context of the broker is not cancelled, every event that
\* Publish enqueued is in the end placed in exactly one batch handed to a
\* background publish: the flush loop takes the events off the queue one by
\* one, in their order, into the batch it is gathering, hands over exactly what
\* it gathered, an event waiting in the queue is taken by the loop later on, and
\* the batch being gathered is handed over later on.
C40_EnqueuedIsDispatched ==
    /\ [][ queue' # queue /\ Len(queue') <= Len(queue) /\ Len(queue) > 0 =>
              /\ queue' = Tail(queue)
              /\ flush'.events = Append(flush.events, Head(queue)) ]_vars
    /\ [][ xadds' # xadds /\ BagCardinality(xadds') > BagCardinality(xadds) =>
              /\ xadds' = xadds (+) SetToBag({flush.events})
              /\ flush'.events = <<>> ]_vars
    /\ (Len(queue) > 0 /\ flush.pc = "first") ~> (flush.pc = "gather")
    /\ (Len(flush.events) > 0) ~> (flush.events = <<>>)

====
